---- MODULE Spec2Model ----
(***************************************************************************)
(* A model of reddot-watch/feedfetcher: the per-domain rate limiter        *)
(* (internal/limiter), the FetchAndProcess pipeline and the With* option   *)
(* methods of FeedFetcher.                                                 *)
(*                                                                         *)
(* Time is counted in whole ticks; one tick is the period in which the     *)
(* limiter replenishes one token (rate.Limit(1): one second).              *)
(***************************************************************************)
EXTENDS Integers, Sequences, FiniteSets, TLC

\* ------------------------------------------------------------------ bounds

\* Number of goroutines calling into the shared DomainRateLimiter.
NumCallers == 2

\* Most tokens a bucket may owe to reservations before time has to pass:
\* a further reservation waits for the next tick.
MaxDebt == 2

Procs == 1..NumCallers

\* ------------------------------------------------------- program constants

\* NewFeedFetcher: limiter.NewDomainRateLimiter(rate.Limit(1), 3)
Rate == 1
Burst == 3

\* ------------------------------------------------------------------ errors

\* A Go error value: its text and, for fmt.Errorf("...%w", err), the error it
\* wraps (a sequence of length 0 or 1).  Nil is the nil error.
Nil == [text |-> "nil", wraps |-> <<>>]

NewError(text) == [text |-> text, wraps |-> <<>>]

\* fmt.Errorf(text + ": %w", err)
Wrap(text, err) == [text |-> text, wraps |-> <<err>>]

\* context.Canceled, context.DeadlineExceeded
Canceled == NewError("context canceled")
DeadlineExceeded == NewError("context deadline exceeded")

\* errors.Is(err, target): err or an error in its %w chain is target.
RECURSIVE Is(_, _)
Is(err, target) ==
    \/ err = target
    \/ /\ err.wraps # <<>>
       /\ Is(err.wraps[1], target)

\* -------------------------------------------------------------------- URLs

\* Strings the code inspects character by character are sequences of
\* one-character strings.
HasPrefix(s, prefix) ==
    /\ Len(s) >= Len(prefix)
    /\ SubSeq(s, 1, Len(prefix)) = prefix

\* strings.TrimPrefix
TrimPrefix(s, prefix) ==
    IF HasPrefix(s, prefix) THEN SubSeq(s, Len(prefix) + 1, Len(s)) ELSE s

WWWDot == <<"w", "w", "w", ".">>

\* A raw URL string, given by the parts net/url finds in it: malformed strings
\* make url.Parse fail; a string without "//authority" has no host.  A path is
\* the sequence of its segments split at "/": "/feed" is <<"", "feed">>.
RawURL(malformed, scheme, authority, path) ==
    [malformed |-> malformed, scheme |-> scheme, authority |-> authority, path |-> path]

\* url.Parse: the error, or the *url.URL (Scheme, Host, Path).
UrlParse(raw) ==
    IF raw.malformed
    THEN [err |-> NewError("parse error"), u |-> [Scheme |-> "", Host |-> <<>>, Path |-> <<>>]]
    ELSE [err |-> Nil, u |-> [Scheme |-> raw.scheme, Host |-> raw.authority, Path |-> raw.path]]

\* The urlStr of a goroutine that is in no call.
NoURL == RawURL(TRUE, "", <<>>, <<>>)

\* The feed URLs callers pass.
FeedURLs ==
    { RawURL(FALSE, "https", <<"a">>, <<"", "feed">>),
      RawURL(FALSE, "https", <<"w", "w", "w", ".", "a">>, <<"", "feed">>),
      RawURL(FALSE, "http", <<"b">>, <<"", "news", "rss">>),
      RawURL(FALSE, "https", WWWDot, <<"", "feed">>),
      RawURL(FALSE, "", <<>>, <<"feed.xml">>),
      RawURL(TRUE, "", <<>>, <<>>) }

\* WaitForDomain: strings.TrimPrefix(u.Host, "www.")
NormalizeHost(host) == TrimPrefix(host, WWWDot)

\* The registry key WaitForDomain passes to getLimiter.
LimiterKeyShared(host) == <<>>
LimiterKey(host) == host

\* URL.ResolveReference(ref) on base (RFC 3986, section 5.2).
ResolveReference(base, ref) ==
    IF ref.Scheme # "" THEN ref
    ELSE IF ref.Host # <<>> THEN [ref EXCEPT !.Scheme = base.Scheme]
    ELSE IF ref.Path = <<>> THEN base
    ELSE IF Head(ref.Path) = "" THEN [base EXCEPT !.Path = ref.Path]
    ELSE [base EXCEPT !.Path =
              (IF base.Path = <<>> THEN <<"">> ELSE SubSeq(base.Path, 1, Len(base.Path) - 1))
                  \o ref.Path]

\* -------------------------------------------------------------- validation

ErrInvalidURL == NewError("invalid url")
ErrEmptyHeadline == NewError("empty headline")
ErrFeedPublicationDateFormat == NewError("publication date format is invalid")
ErrHeadlineTooLong == NewError("headline exceeds maximum length")
ErrPublicationTooOld == NewError("publication date exceeds maximum age")
ErrFuturePublication ==
    NewError("publication date is in the future beyond allowed tolerance")
ErrMissingPublishDate == NewError("missing publication date")

\* A raw link: the URL text, possibly surrounded by white space.
RawLink(padded, raw) == [padded |-> padded, raw |-> raw]

\* The empty URL text.
EmptyURL == RawURL(FALSE, "", <<>>, <<>>)

\* ValidateAndResolveURL(feedURL, rawURL): the resolved URL (URL.String(), kept
\* as its parts) and the error.
ValidateAndResolveURL(feedURL, rawLink) ==
    LET trimmed == rawLink.raw
        parsed == UrlParse(trimmed)
    IN  IF trimmed = EmptyURL
        THEN [url |-> UrlParse(EmptyURL).u, err |-> ErrInvalidURL]
        ELSE IF parsed.err # Nil
        THEN [url |-> UrlParse(EmptyURL).u, err |-> Wrap("invalid url", ErrInvalidURL)]
        ELSE [url |-> ResolveReference(feedURL, parsed.u), err |-> Nil]

\* White space as the regular expression \s sees it, and as strings.TrimSpace
\* (unicode.IsSpace) sees it: the no-break space is white space only to the latter.
RegexpSpace == {" ", "\t"}
UnicodeSpace == {" ", "\t", "nbsp"}

\* spaceRegexp.ReplaceAllString(s, " "): every run of \s becomes one space.
RECURSIVE CollapseSpace(_)
CollapseSpace(s) ==
    IF s = <<>> THEN <<>>
    ELSE IF Head(s) \in RegexpSpace
    THEN IF Len(s) > 1 /\ s[2] \in RegexpSpace
         THEN CollapseSpace(Tail(s))
         ELSE <<" ">> \o CollapseSpace(Tail(s))
    ELSE <<Head(s)>> \o CollapseSpace(Tail(s))

RECURSIVE TrimLeft(_)
TrimLeft(s) ==
    IF s # <<>> /\ Head(s) \in UnicodeSpace THEN TrimLeft(Tail(s)) ELSE s

RECURSIVE TrimRight(_)
TrimRight(s) ==
    IF s # <<>> /\ s[Len(s)] \in UnicodeSpace THEN TrimRight(SubSeq(s, 1, Len(s) - 1)) ELSE s

\* strings.TrimSpace
TrimSpace(s) == TrimRight(TrimLeft(s))

\* The bytes of a code point in UTF-8: the no-break space and the accented
\* letter take two.
Utf8Len(c) == IF c \in {"nbsp", "eacute"} THEN 2 ELSE 1

\* len(headline): the bytes of the string.
RECURSIVE ByteCount(_)
ByteCount(s) == IF s = <<>> THEN 0 ELSE Utf8Len(Head(s)) + ByteCount(Tail(s))

\* len([]rune(headline)): the code points of the string.
RuneCount(s) == Len(s)

\* ValidateAndSanitizeHeadline(rawHeadline, maxLength); a headline is the
\* sequence of its code points.
ValidateAndSanitizeHeadline(rawHeadline, maxLength) ==
    LET headline == TrimSpace(CollapseSpace(rawHeadline))
    IN  IF rawHeadline = <<>> THEN [headline |-> <<>>, err |-> ErrEmptyHeadline]
        ELSE IF RuneCount(headline) > maxLength
        THEN [headline |-> <<>>, err |-> ErrHeadlineTooLong]
        ELSE [headline |-> headline, err |-> Nil]

\* A time.Time: the instant (hours since the epoch) and the zone it is
\* expressed in.  loc is "UTC", "Local" or "Fixed"; off is the zone's offset.
Time(inst, loc, off) == [inst |-> inst, loc |-> loc, off |-> off]

\* time.Time{}
ZeroTime == Time(0, "UTC", 0)

\* The wall clock of t read as a time in UTC.
UTCSameWallClock(t) == Time(t.inst + t.off, "UTC", 0)

\* Time.UTC(): the same instant, expressed in UTC.
UTC(t) == Time(t.inst, "UTC", 0)

\* The UTC offset of the process's local zone.
LocalOffset == 2

\* A publication date string, given by what a layout of dateLayouts reads in
\* it: the wall clock and, for a layout with a zone, the zone's offset.
\* kind "offset": matched by a layout with a numeric zone;
\* kind "localzone": matched by a layout with a zone abbreviation (MST), the
\*     abbreviation being one of the process's local zone;
\* kind "otherzone": the same, the abbreviation not being one of the local zone
\*     (off is the offset that zone really has);
\* kind "nozone": matched by a layout without a zone;
\* kind "eete": matched by eetePattern (wall is the approximate time made up);
\* kind "unknown": matched by no layout.
DateString(kind, wall, off) == [kind |-> kind, wall |-> wall, off |-> off]

\* The empty string.
EmptyDate == DateString("empty", 0, 0)

\* ParseDate(dateStr): parseEETEPattern, or time.Parse under the first layout
\* that matches.  A parsed offset that is the local zone's gives a time in
\* time.Local, another offset a time in a fixed zone.  An abbreviation of the
\* local zone gives a time in time.Local, another abbreviation a fabricated
\* zone of that name with offset zero: the wall clock is taken as UTC.  No
\* zone gives a time in UTC.
ParseDate(dateStr) ==
    IF dateStr.kind = "eete"
    THEN [t |-> Time(dateStr.wall, "UTC", 0), err |-> Nil]
    ELSE IF dateStr.kind = "offset"
    THEN [t |-> Time(dateStr.wall - dateStr.off,
                     IF dateStr.off = LocalOffset THEN "Local" ELSE "Fixed",
                     dateStr.off),
          err |-> Nil]
    ELSE IF dateStr.kind = "localzone"
    THEN [t |-> Time(dateStr.wall - LocalOffset, "Local", LocalOffset), err |-> Nil]
    ELSE IF dateStr.kind = "otherzone"
    THEN [t |-> Time(dateStr.wall, "Fixed", 0), err |-> Nil]
    ELSE IF dateStr.kind = "nozone"
    THEN [t |-> Time(dateStr.wall, "UTC", 0), err |-> Nil]
    ELSE [t |-> ZeroTime, err |-> NewError("unable to parse date")]

\* ParseDate's result as it is, a time in time.Local left in time.Local.
ParseDateKeepLocal(dateStr) == ParseDate(dateStr)

\* ParseDateWithDefaultTZ(dateStr): a time in time.Local is converted to UTC,
\* any other is returned as parsed.
ParseDateWithDefaultTZ(dateStr) ==
    LET r == ParseDate(dateStr)
    IN  IF r.err # Nil THEN r
        ELSE IF r.t.loc = "Local" THEN [t |-> UTC(r.t), err |-> Nil]
        ELSE r

\* A *gofeed.Item (isNil: a nil pointer in feed.data.Items).  PublishedParsed
\* is <<>> (nil) or <<t>>.
Item(link, title, description, content, published, publishedParsed) ==
    [isNil |-> FALSE, Link |-> link, Title |-> title, Description |-> description,
     Content |-> content, Published |-> published, PublishedParsed |-> publishedParsed]

NilItem ==
    [isNil |-> TRUE, Link |-> RawLink(FALSE, EmptyURL), Title |-> <<>>, Description |-> <<>>,
     Content |-> <<>>, Published |-> EmptyDate, PublishedParsed |-> <<>>]

\* d > limit on time.Duration, and the comparison that also holds at the limit.
ExceedsOrEquals(d, limit) == d >= limit
Exceeds(d, limit) == d > limit

\* ValidatePublicationDate: item.PublishedParsed = &t, done only when the
\* parser returned no error; and the assignment done whatever it returned.
CacheParsedAlways(item, parsed) == [item EXCEPT !.PublishedParsed = <<parsed.t>>]
CacheParsed(item, parsed) ==
    IF parsed.err = Nil THEN [item EXCEPT !.PublishedParsed = <<parsed.t>>] ELSE item

\* ValidatePublicationDate(item, maxAge, futureTolerance) at time.Now() = now:
\* the date, the error and the item after the call (the parsed date is cached
\* on it).
ValidatePublicationDate(item, maxAge, futureTolerance, now) ==
    LET parsed == ParseDateWithDefaultTZ(item.Published)
        item2 == IF item.PublishedParsed = <<>> /\ item.Published # EmptyDate
                 THEN CacheParsed(item, parsed)
                 ELSE item
    IN  IF item.PublishedParsed = <<>> /\ item.Published = EmptyDate
        THEN [t |-> ZeroTime, err |-> ErrMissingPublishDate, item |-> item2]
        ELSE IF item.PublishedParsed = <<>> /\ parsed.err # Nil
        THEN [t |-> ZeroTime,
              err |-> Wrap("publication date format is invalid", ErrFeedPublicationDateFormat),
              item |-> item2]
        ELSE LET pubDate == UTC(item2.PublishedParsed[1])
             IN  IF Exceeds(pubDate.inst - now, futureTolerance)
                 THEN [t |-> ZeroTime, err |-> ErrFuturePublication, item |-> item2]
                 ELSE IF Exceeds(now - pubDate.inst, maxAge)
                 THEN [t |-> ZeroTime, err |-> ErrPublicationTooOld, item |-> item2]
                 ELSE [t |-> pubDate, err |-> Nil, item |-> item2]

\* ExtractContent(item)
ExtractContent(item) ==
    IF TrimSpace(item.Description) # <<>> THEN TrimSpace(item.Description)
    ELSE TrimSpace(item.Content)

\* --------------------------------------------------------------- variables

VARIABLES
    limiters,    \* DomainRateLimiter.limiters: host -> bucket (index in buckets)
    buckets,     \* the rate.Limiter objects ever allocated, in allocation order
    muReaders,   \* DomainRateLimiter.mu: goroutines holding the read lock
    muWriter,    \* DomainRateLimiter.mu: goroutine in Lock() or holding the write lock, or 0
    pc,          \* each goroutine's position
    url,         \* each goroutine's urlStr argument
    ctxErr,      \* each goroutine's ctx.Err(): Nil until the context is done
    lim,         \* getLimiter's local `limiter` / the bucket Wait runs on, 0 = nil
    rem,         \* ticks until the Wait timer of the goroutine's reservation is due
    waited,      \* the current call blocked in the limiter's select
    ret,         \* the error WaitForDomain returned
    fetchers,    \* the FeedFetcher objects ever allocated, in allocation order
    lastWith,    \* the last With* call: receiver, method, argument, returned object
    recv,        \* FetchAndProcess: the receiver f (index in fetchers), 0 = no call
    ctx0,        \* FetchAndProcess: ctx.Err() at the time of the call
    feed,        \* FetchAndProcess: the feed object ff (<<>> until newFeed made it)
    collab,      \* what the retrieval collaborator returned to download
    retrievals,  \* how often the call invoked the retrieval collaborator
    now,         \* time.Now() as last read by the call (hours)
    idx,         \* extractItems: the loop index i
    result,      \* extractItems: the result slice
    log,         \* the validateAndConvertItem calls of the call, in order
    out,         \* what FetchAndProcess returned: the items and the error
    call         \* the last call of a validation function: arguments and results

limVars == <<limiters, buckets, muReaders, muWriter, pc, url, ctxErr, lim, rem, waited, ret>>

withVars == <<fetchers, lastWith>>

fetchVars == <<recv, ctx0, feed, collab, retrievals, now, idx, result, log, out>>

callVars == <<call>>

vars == <<limVars, withVars, fetchVars, callVars>>

\* No validation function has been called.
NoCall == [fn |-> ""]

\* ------------------------------------------------------------ rate.Limiter

\* Instants are kept relative to now, in ticks.  Of an instant in the past
\* only the fact that it is past matters (Reservation.CancelAt returns early
\* for a reservation whose time has passed), so all of them are Past.
Past == 0 - 1

Min(a, b) == IF a < b THEN a ELSE b
Max(a, b) == IF a > b THEN a ELSE b

\* rate.NewLimiter(l.r, l.b): a full bucket with no reservation yet.
NewLimiter(r, b) == [limit |-> r, burst |-> b, tokens |-> b, lastEvent |-> Past]

\* Limiter.advance over one tick, applied eagerly.
AdvanceOneTick(b) ==
    [b EXCEPT !.tokens = Min(b.burst, b.tokens + b.limit),
              !.lastEvent = Max(Past, b.lastEvent - 1)]

\* limit.durationFromTokens(tokens), in ticks, rounded up.
DurationFromTokens(limit, tokens) == (tokens + limit - 1) \div limit

\* Limiter.reserveN(now, 1, InfDuration): the reservation and the bucket after.
ReserveN(b, n) ==
    LET tokens == b.tokens - n
        waitDuration == IF tokens < 0 THEN DurationFromTokens(b.limit, 0 - tokens) ELSE 0
        ok == n <= b.burst
    IN  [ok |-> ok,
         delay |-> waitDuration,
         bucket |-> IF ok THEN [b EXCEPT !.tokens = tokens, !.lastEvent = waitDuration]
                          ELSE b]

\* Reservation.CancelAt(now) of a reservation of n tokens due in timeToAct ticks.
CancelAt(b, n, timeToAct) ==
    LET restoreTokens == n - (b.lastEvent - timeToAct) * b.limit
        prevEvent == timeToAct - DurationFromTokens(b.limit, n)
    IN  IF n = 0 \/ timeToAct < 0 \/ restoreTokens <= 0
        THEN b
        ELSE [b EXCEPT !.tokens = Min(b.burst, b.tokens + restoreTokens),
                       !.lastEvent = IF timeToAct = b.lastEvent /\ prevEvent >= 0
                                     THEN prevEvent ELSE b.lastEvent]

\* -------------------------------------------------------- DomainRateLimiter

\* NewDomainRateLimiter: an empty registry, no lock held.
NewDomainRateLimiter == [limiters |-> <<>>, muReaders |-> {}, muWriter |-> 0]

\* l.limiters[domain] under the read lock: the bucket, or 0 when absent.
Lookup(ls, domain) == IF domain \in DOMAIN ls THEN ls[domain] ELSE 0

MapPut(ls, domain, id) ==
    [d \in DOMAIN ls \cup {domain} |-> IF d = domain THEN id ELSE ls[d]]

\* getLimiter's write-locked section without the second lookup.
CreateAlways(ls, bs, domain) ==
    [limiters |-> MapPut(ls, domain, Len(bs) + 1),
     buckets |-> Append(bs, NewLimiter(Rate, Burst)),
     limiter |-> Len(bs) + 1]

\* getLimiter's write-locked section: look up again, create only if absent.
CreateIfAbsent(ls, bs, domain) ==
    IF Lookup(ls, domain) # 0
    THEN [limiters |-> ls, buckets |-> bs, limiter |-> Lookup(ls, domain)]
    ELSE [limiters |-> MapPut(ls, domain, Len(bs) + 1),
          buckets |-> Append(bs, NewLimiter(Rate, Burst)),
          limiter |-> Len(bs) + 1]

\* getLimiter: l.mu.RUnlock() takes the goroutine out of the readers.
MuRUnlockMissing(readers, p) == readers
MuRUnlock(readers, p) == readers \ {p}

\* getLimiter: l.mu.Unlock() releases the write lock (0 = no writer).
MuUnlockMissing(writer) == writer
MuUnlock(writer) == 0

\* The context WaitForDomain hands to Limiter.Wait: the caller's ctx.
WaitCtxBackground(p) == Nil
WaitCtx(p) == ctxErr[p]

\* The host WaitForDomain computes from urlStr (valid once url.Parse succeeded).
HostOf(raw) == NormalizeHost(UrlParse(raw).u.Host)

\* WaitForDomain returns err to its caller.
Return(p, err) ==
    /\ pc' = [pc EXCEPT ![p] = "wfd_ret"]
    /\ ret' = [ret EXCEPT ![p] = err]

\* WaitForDomain(ctx, urlStr), up to the call of getLimiter: url.Parse, the
\* "www." trim and the empty-host check.
WaitForDomain(p, u, c) ==
    /\ pc[p] = "idle"
    /\ url' = [url EXCEPT ![p] = u]
    /\ ctxErr' = [ctxErr EXCEPT ![p] = c]
    /\ waited' = [waited EXCEPT ![p] = FALSE]
    /\ IF UrlParse(u).err # Nil
       THEN Return(p, Wrap("failed to parse URL for rate limiting", UrlParse(u).err))
       ELSE IF HostOf(u) = <<>>
       THEN Return(p, NewError("empty host in URL"))
       ELSE /\ pc' = [pc EXCEPT ![p] = "gl_rlock"]
            /\ ret' = [ret EXCEPT ![p] = Nil]
    /\ UNCHANGED <<limiters, buckets, muReaders, muWriter, lim, rem>>

\* getLimiter: l.mu.RLock()
GetLimiterRLock(p) ==
    /\ pc[p] = "gl_rlock"
    /\ muWriter = 0
    /\ muReaders' = muReaders \cup {p}
    /\ pc' = [pc EXCEPT ![p] = "gl_rlocked"]
    /\ UNCHANGED <<limiters, buckets, muWriter, url, ctxErr, lim, rem, waited, ret>>

\* getLimiter: limiter, exists := l.limiters[domain]; l.mu.RUnlock()
GetLimiterRUnlock(p) ==
    /\ pc[p] = "gl_rlocked"
    /\ lim' = [lim EXCEPT ![p] = Lookup(limiters, LimiterKey(HostOf(url[p])))]
    /\ muReaders' = MuRUnlock(muReaders, p)
    /\ pc' = [pc EXCEPT ![p] = IF lim'[p] # 0 THEN "wait" ELSE "gl_lock"]
    /\ UNCHANGED <<limiters, buckets, muWriter, url, ctxErr, rem, waited, ret>>

\* getLimiter: l.mu.Lock() begins.  The writer excludes the other writers and
\* announces itself: from now on RLock admits no new reader.
GetLimiterLock(p) ==
    /\ pc[p] = "gl_lock"
    /\ muWriter = 0
    /\ muWriter' = p
    /\ pc' = [pc EXCEPT ![p] = "gl_locking"]
    /\ UNCHANGED <<limiters, buckets, muReaders, url, ctxErr, lim, rem, waited, ret>>

\* getLimiter: l.mu.Lock() returns once the readers that held the lock have left.
GetLimiterLocked(p) ==
    /\ pc[p] = "gl_locking"
    /\ muReaders = {}
    /\ pc' = [pc EXCEPT ![p] = "gl_locked"]
    /\ UNCHANGED <<limiters, buckets, muReaders, muWriter, url, ctxErr, lim, rem, waited, ret>>

\* getLimiter: the double-checked creation and l.mu.Unlock()
GetLimiterUnlock(p) ==
    /\ pc[p] = "gl_locked"
    /\ LET r == CreateIfAbsent(limiters, buckets, LimiterKey(HostOf(url[p])))
       IN  /\ limiters' = r.limiters
           /\ buckets' = r.buckets
           /\ lim' = [lim EXCEPT ![p] = r.limiter]
    /\ muWriter' = MuUnlock(muWriter)
    /\ pc' = [pc EXCEPT ![p] = "wait"]
    /\ UNCHANGED <<muReaders, url, ctxErr, rem, waited, ret>>

\* Limiter.Wait(ctx): the burst check and the check that ctx is not done yet.
WaitEnter(p) ==
    /\ pc[p] = "wait"
    /\ IF 1 > buckets[lim[p]].burst
       THEN Return(p, NewError("rate: Wait(n=1) exceeds limiter's burst"))
       ELSE IF WaitCtx(p) # Nil
       THEN Return(p, WaitCtx(p))
       ELSE /\ pc' = [pc EXCEPT ![p] = "reserve"]
            /\ UNCHANGED ret
    /\ UNCHANGED <<limiters, buckets, muReaders, muWriter, url, ctxErr, lim, rem, waited>>

\* Limiter.Wait(ctx): reserveN; no delay returns nil at once; otherwise the
\* timer is started and the goroutine enters the select on timer and ctx.Done().
\* The timer cannot be due yet, so a ctx that is already done wins the select.
WaitReserve(p) ==
    /\ pc[p] = "reserve"
    /\ buckets[lim[p]].tokens - 1 >= 0 - MaxDebt
    /\ LET r == ReserveN(buckets[lim[p]], 1)
       IN  IF r.delay = 0
           THEN /\ buckets' = [buckets EXCEPT ![lim[p]] = r.bucket]
                /\ Return(p, Nil)
                /\ UNCHANGED <<rem, waited>>
           ELSE IF WaitCtx(p) # Nil
           THEN /\ buckets' = [buckets EXCEPT ![lim[p]] = CancelAt(r.bucket, 1, r.delay)]
                /\ Return(p, WaitCtx(p))
                /\ UNCHANGED <<rem, waited>>
           ELSE /\ buckets' = [buckets EXCEPT ![lim[p]] = r.bucket]
                /\ rem' = [rem EXCEPT ![p] = r.delay]
                /\ waited' = [waited EXCEPT ![p] = TRUE]
                /\ pc' = [pc EXCEPT ![p] = "parked"]
                /\ UNCHANGED ret
    /\ UNCHANGED <<limiters, muReaders, muWriter, url, ctxErr, lim>>

\* Limiter.Wait(ctx), select case <-ch: the timer fired first.
WaitTimerFired(p) ==
    /\ pc[p] = "parked"
    /\ rem[p] <= 0
    /\ WaitCtx(p) = Nil
    /\ Return(p, Nil)
    /\ UNCHANGED <<limiters, buckets, muReaders, muWriter, url, ctxErr, lim, rem, waited>>

\* Limiter.Wait(ctx), select case <-ctx.Done(): r.Cancel(); return ctx.Err()
WaitCtxDone(p) ==
    /\ pc[p] = "parked"
    /\ WaitCtx(p) # Nil
    /\ buckets' = [buckets EXCEPT ![lim[p]] = CancelAt(@, 1, rem[p])]
    /\ Return(p, WaitCtx(p))
    /\ UNCHANGED <<limiters, muReaders, muWriter, url, ctxErr, lim, rem, waited>>

\* The caller of WaitForDomain takes the result; the goroutine is free again.
WaitForDomainDone(p) ==
    /\ pc[p] = "wfd_ret"
    /\ pc' = [pc EXCEPT ![p] = "idle"]
    /\ url' = [url EXCEPT ![p] = NoURL]
    /\ ctxErr' = [ctxErr EXCEPT ![p] = Nil]
    /\ lim' = [lim EXCEPT ![p] = 0]
    /\ rem' = [rem EXCEPT ![p] = 0]
    /\ waited' = [waited EXCEPT ![p] = FALSE]
    /\ ret' = [ret EXCEPT ![p] = Nil]
    /\ UNCHANGED <<limiters, buckets, muReaders, muWriter>>

\* The caller cancels the context of a call in progress.
CtxCancel(p) ==
    /\ pc[p] \notin {"idle", "wfd_ret", "fap_download", "fap_extract", "fap_ret"}
    /\ ctxErr[p] = Nil
    /\ ctxErr' = [ctxErr EXCEPT ![p] = Canceled]
    /\ UNCHANGED <<limiters, buckets, muReaders, muWriter, pc, url, lim, rem, waited, ret>>

\* One tick of time: every bucket gains a token (up to its burst) and every
\* running timer comes one tick closer.
Tick ==
    /\ buckets' = [i \in DOMAIN buckets |-> AdvanceOneTick(buckets[i])]
    /\ rem' = [p \in Procs |-> IF pc[p] = "parked" THEN Max(Past, rem[p] - 1) ELSE rem[p]]
    /\ UNCHANGED <<limiters, muReaders, muWriter, pc, url, ctxErr, lim, waited, ret>>

\* -------------------------------------------------------------- FeedFetcher

Config(userAgent, requestTimeout, maxItems, maxHeadingLength, maxAge, futureDriftTolerance) ==
    [UserAgent |-> userAgent, RequestTimeout |-> requestTimeout, MaxItems |-> maxItems,
     MaxHeadingLength |-> maxHeadingLength, MaxAge |-> maxAge,
     FutureDriftTolerance |-> futureDriftTolerance]

\* DefaultConfig (RequestTimeout in seconds, MaxAge and FutureDriftTolerance in hours).
DefaultConfig ==
    Config("Mozilla/5.0 (compatible; ReddotWatchBot/1.0; +https://reddot.watch/bot)",
           10, 1000, 250, 24, 24)

\* feedparser.NewGoFeedParser(userAgent)
NewGoFeedParser(userAgent) == [UserAgent |-> userAgent]

\* NewFeedFetcher(config).  rateLimiter is a pointer: the registry of this model.
NewFeedFetcher(config) ==
    [config |-> config, parser |-> NewGoFeedParser(config.UserAgent),
     rateLimiter |-> "DomainRateLimiter", logger |-> "feed_fetcher"]

NewDefaultFeedFetcher == NewFeedFetcher(DefaultConfig)

\* The With* methods, on the heap of FeedFetcher objects: newFetcher := *f is a
\* new object, the method changes it and returns its address.
\* heap: the objects; f: the receiver's address; the result: the heap after
\* the call and the address returned.
Alloc(heap, obj) == [heap |-> Append(heap, obj), ret |-> Len(heap) + 1]

WithLogger(heap, f, logger) ==
    Alloc(heap, [heap[f] EXCEPT !.logger = logger])

\* A WithMaxItems that sets the field on the receiver and returns the receiver.
WithMaxItemsInPlace(heap, f, maxItems) ==
    [heap |-> [heap EXCEPT ![f].config.MaxItems = maxItems], ret |-> f]

WithMaxItems(heap, f, maxItems) ==
    Alloc(heap, [heap[f] EXCEPT !.config.MaxItems = maxItems])

WithMaxAge(heap, f, duration) ==
    Alloc(heap, [heap[f] EXCEPT !.config.MaxAge = duration])

WithUserAgent(heap, f, userAgent) ==
    Alloc(heap, [heap[f] EXCEPT !.config.UserAgent = userAgent,
                                !.parser = NewGoFeedParser(userAgent)])

WithRequestTimeout(heap, f, timeout) ==
    Alloc(heap, [heap[f] EXCEPT !.config.RequestTimeout = timeout])

WithMaxHeadingLength(heap, f, length) ==
    Alloc(heap, [heap[f] EXCEPT !.config.MaxHeadingLength = length])

WithFutureDriftTolerance(heap, f, duration) ==
    Alloc(heap, [heap[f] EXCEPT !.config.FutureDriftTolerance = duration])

\* No With* call yet.
NoWith == [recv |-> 0, method |-> "", arg |-> 0, ret |-> 0]

\* A nil slice and a slice with elements (result := make(...) is not nil).
NilSlice == [isNil |-> TRUE, elems |-> <<>>]
Slice(elems) == [isNil |-> FALSE, elems |-> elems]

\* FetchAndProcess has not returned.
NoOut == [returned |-> FALSE, items |-> NilSlice, err |-> Nil]

\* return items, err
Returned(items, err) == [returned |-> TRUE, items |-> items, err |-> err]

\* newFeed(feedURL): the feed object and the error.
NewFeed(feedURL) ==
    IF UrlParse(feedURL).err # Nil
    THEN [feed |-> <<>>, err |-> Wrap("invalid feed url", UrlParse(feedURL).err)]
    ELSE [feed |-> <<[url |-> feedURL, parsedURL |-> UrlParse(feedURL).u, data |-> <<>>]>>,
          err |-> Nil]

\* download: the error returned for the collaborator's error, with the
\* collaborator's error given by %v (its text only).
DownloadErrorUnwrapped(err) ==
    IF Is(err, DeadlineExceeded) THEN NewError("timed out fetching feed")
    ELSE IF Is(err, Canceled) THEN NewError("feed fetch canceled")
    ELSE NewError("failed to parse feed url")

\* download: the error returned for the collaborator's error.
DownloadError(err) ==
    IF Is(err, DeadlineExceeded) THEN Wrap("timed out fetching feed", err)
    ELSE IF Is(err, Canceled) THEN Wrap("feed fetch canceled", err)
    ELSE Wrap("failed to parse feed url", err)

\* extractItems: itemCount
ItemCountUncapped(n, maxItems) == n
ItemCount(n, maxItems) == IF maxItems > 0 /\ maxItems < n THEN maxItems ELSE n

\* validateAndConvertItem with the publication date validated before the link.
ValidateAndConvertItemDateFirst(feedURL, item, config, t) ==
    LET u == ValidateAndResolveURL(feedURL, item.Link)
        d == ValidatePublicationDate(item, config.MaxAge, config.FutureDriftTolerance, t)
        h == ValidateAndSanitizeHeadline(item.Title, config.MaxHeadingLength)
    IN  IF d.err # Nil THEN [item |-> <<>>, err |-> d.err, entry |-> d.item]
        ELSE IF u.err # Nil THEN [item |-> <<>>, err |-> u.err, entry |-> d.item]
        ELSE IF h.err # Nil THEN [item |-> <<>>, err |-> h.err, entry |-> d.item]
        ELSE [item |-> <<[FeedURL |-> feedURL, URL |-> u.url, PublishedAt |-> d.t,
                          Headline |-> h.headline, Content |-> ExtractContent(item)]>>,
              err |-> Nil, entry |-> d.item]

\* validateAndConvertItem(feedURL, item) at time.Now() = t: the FeedItem
\* (<<>> = nil), the error and the item after the call.
ValidateAndConvertItem(feedURL, item, config, t) ==
    LET u == ValidateAndResolveURL(feedURL, item.Link)
        d == ValidatePublicationDate(item, config.MaxAge, config.FutureDriftTolerance, t)
        h == ValidateAndSanitizeHeadline(item.Title, config.MaxHeadingLength)
    IN  IF u.err # Nil THEN [item |-> <<>>, err |-> u.err, entry |-> item]
        ELSE IF d.err # Nil THEN [item |-> <<>>, err |-> d.err, entry |-> d.item]
        ELSE IF h.err # Nil THEN [item |-> <<>>, err |-> h.err, entry |-> d.item]
        ELSE [item |-> <<[FeedURL |-> feedURL, URL |-> u.url, PublishedAt |-> d.t,
                          Headline |-> h.headline, Content |-> ExtractContent(item)]>>,
              err |-> Nil, entry |-> d.item]

\* extractItems: which error of validateAndConvertItem ends the batch.
IsSystemicNever(err) == FALSE
IsSystemicAlways(err) == TRUE
IsSystemic(err) == Is(err, ErrFeedPublicationDateFormat)

\* extractItems on the date-format error: return nil, ErrFeedPublicationDateFormat
AbortWithPartial(res, err) == Returned(Slice(res), err)
Abort(res, err) == Returned(NilSlice, err)

\* ------------------------------------------------------------------ inputs

\* The most entries a retrieved feed has.
MaxEntries == 3

\* The most FeedFetcher objects allocated.
MaxFetchers == 3

\* The readings of the clock (hours).
Nows == {10, 11}
FirstNow == CHOOSE t \in Nows : \A u \in Nows : t <= u

\* Configurations on the scale of Nows: a headline of at most 3 code points,
\* an age of at most 2 hours, 1 hour of future drift; MaxItems negative or 0
\* (no limit) or 2.
TestConfigs == { Config("test-agent", 10, m, 3, 2, 1) : m \in {0 - 1, 0, 2} }

RelativeLink == RawLink(FALSE, RawURL(FALSE, "", <<>>, <<"", "x">>))
AbsoluteLink == RawLink(TRUE, RawURL(FALSE, "https", <<"c">>, <<"", "y">>))
EmptyLink == RawLink(FALSE, EmptyURL)

\* Entries of a retrieved feed: valid with the date parsed by the collaborator
\* (in UTC); valid with the date still a string, with an offset that is not
\* the local zone's; a date no layout reads; an invalid link and a date no
\* layout reads; a headline too long (the date a string with the local zone's
\* offset); a date, parsed by the collaborator in a zone of its own, that is
\* too old at the later clock reading only; no date; a nil entry.
ItemKinds ==
    { Item(RelativeLink, <<"H", "i">>, <<"d">>, <<>>, EmptyDate, <<Time(10, "UTC", 0)>>),
      Item(AbsoluteLink, <<" ", "A", " ", "\t", "B", " ">>, <<>>, <<"c">>,
           DateString("offset", 11, 1), <<>>),
      Item(RelativeLink, <<"L", "o", "n", "g">>, <<"d">>, <<>>,
           DateString("unknown", 0, 0), <<>>),
      Item(EmptyLink, <<"H", "i">>, <<"d">>, <<>>, DateString("unknown", 0, 0), <<>>),
      Item(RelativeLink, <<"L", "o", "n", "g">>, <<"d">>, <<>>,
           DateString("offset", 10, LocalOffset), <<>>),
      Item(AbsoluteLink, <<" ", "\t", " ">>, <<"d">>, <<>>, EmptyDate, <<Time(8, "Fixed", 1)>>),
      Item(RelativeLink, <<"H", "i">>, <<"d">>, <<>>, EmptyDate, <<>>),
      NilItem }

\* The feeds the collaborator may retrieve.
Feeds == UNION { [1..n -> ItemKinds] : n \in 0..MaxEntries }

\* The feed URLs FetchAndProcess is called with: a host, only "www." as the
\* host, no host, malformed.
FetchURLs ==
    { u \in FeedURLs : UrlParse(u).err # Nil \/ HostOf(u) \in {<<>>, <<"a">>} }

\* The goroutine that calls FetchAndProcess.
Fetcher == CHOOSE p \in Procs : \A q \in Procs : p <= q

\* The receiver's configuration.
Cfg == fetchers[recv].config

\* The retrieval collaborator has not been invoked.
NoCollab == [called |-> FALSE, err |-> Nil, feed |-> <<>>]

\* f.parser.ParseURLWithContext(feed.url, ctx): what the collaborator may
\* return.  It respects the context: it succeeds only while the context is
\* not done and reports Canceled only when the caller canceled; the request
\* deadline may expire and the retrieval may fail at any time.
ParseURLWithContext(ctxE, feeds) ==
    { [called |-> TRUE, err |-> Nil, feed |-> f] : f \in { g \in feeds : ctxE = Nil } }
    \cup { [called |-> TRUE, err |-> e, feed |-> <<>>] :
             e \in { DeadlineExceeded, Wrap("Get", DeadlineExceeded),
                     NewError("http error: 404 Not Found") } }
    \cup { [called |-> TRUE, err |-> e, feed |-> <<>>] :
             e \in { x \in {Canceled, Wrap("Get", Canceled)} : ctxE = Canceled } }

\* FetchAndProcess(ctx, feedURL) on f: the call and WaitForDomain's first part.
FetchAndProcess(p, f, u, c) ==
    /\ recv = 0
    /\ WaitForDomain(p, u, c)
    /\ recv' = f
    /\ ctx0' = c
    /\ UNCHANGED <<feed, collab, retrievals, now, idx, result, log, out>>

\* FetchAndProcess: if err := f.rateLimiter.WaitForDomain(...); err != nil
AdmissionFailedNever(err) == FALSE
AdmissionFailed(err) == err # Nil

\* FetchAndProcess: WaitForDomain has returned; on an error return nil, err;
\* otherwise newFeed.
FetchAfterWait(p) ==
    /\ pc[p] = "wfd_ret"
    /\ recv # 0
    /\ IF AdmissionFailed(ret[p])
       THEN /\ out' = Returned(NilSlice, ret[p])
            /\ pc' = [pc EXCEPT ![p] = "fap_ret"]
            /\ UNCHANGED feed
       ELSE IF NewFeed(url[p]).err # Nil
       THEN /\ out' = Returned(NilSlice, NewFeed(url[p]).err)
            /\ pc' = [pc EXCEPT ![p] = "fap_ret"]
            /\ UNCHANGED feed
       ELSE /\ feed' = NewFeed(url[p]).feed
            /\ pc' = [pc EXCEPT ![p] = "fap_download"]
            /\ UNCHANGED out
    /\ UNCHANGED <<limiters, buckets, muReaders, muWriter, url, ctxErr, lim, rem, waited, ret>>
    /\ UNCHANGED <<recv, ctx0, collab, retrievals, now, idx, result, log>>

\* download: context.WithTimeout and the call of the collaborator.
Download(p) ==
    /\ pc[p] = "fap_download"
    /\ retrievals' = retrievals + 1
    /\ pc' = [pc EXCEPT ![p] = "fap_retrieving"]
    /\ UNCHANGED <<limiters, buckets, muReaders, muWriter, url, ctxErr, lim, rem, waited, ret>>
    /\ UNCHANGED <<recv, ctx0, feed, collab, now, idx, result, log, out>>

\* FetchAndProcess: if err := f.download(ctx, ff); err != nil
DownloadFailedNever(err) == FALSE
DownloadFailed(err) == err # Nil

\* download: the collaborator returns; FetchAndProcess returns download's
\* error or goes on to extractItems.
DownloadReturn(p) ==
    /\ pc[p] = "fap_retrieving"
    /\ \E r \in ParseURLWithContext(ctxErr[p], Feeds) :
          /\ collab' = r
          /\ IF DownloadFailed(r.err)
             THEN /\ out' = Returned(NilSlice, DownloadError(r.err))
                  /\ pc' = [pc EXCEPT ![p] = "fap_ret"]
                  /\ UNCHANGED feed
             ELSE /\ feed' = <<[feed[1] EXCEPT !.data = <<r.feed>>]>>
                  /\ pc' = [pc EXCEPT ![p] = "fap_extract"]
                  /\ UNCHANGED out
    /\ UNCHANGED <<limiters, buckets, muReaders, muWriter, url, ctxErr, lim, rem, waited, ret>>
    /\ UNCHANGED <<recv, ctx0, retrievals, now, idx, result, log>>

\* extractItems: one iteration of the loop, with time.Now() = t.
ExtractItem(p, t) ==
    /\ pc[p] = "fap_extract"
    /\ idx < ItemCount(Len(feed[1].data[1]), Cfg.MaxItems)
    /\ LET item == feed[1].data[1][idx + 1]
           r == ValidateAndConvertItem(feed[1].parsedURL, item, Cfg, t)
       IN  IF item.isNil
           THEN /\ t = now
                /\ idx' = idx + 1
                /\ UNCHANGED <<pc, feed, now, result, log, out>>
           ELSE /\ t >= now
                /\ now' = t
                /\ feed' = <<[feed[1] EXCEPT !.data[1][idx + 1] = r.entry]>>
                /\ log' = Append(log, [i |-> idx, t |-> t, err |-> r.err])
                /\ IF r.err # Nil /\ IsSystemic(r.err)
                   THEN /\ out' = Abort(result, ErrFeedPublicationDateFormat)
                        /\ pc' = [pc EXCEPT ![p] = "fap_ret"]
                        /\ UNCHANGED <<idx, result>>
                   ELSE IF r.err # Nil
                   THEN /\ idx' = idx + 1
                        /\ UNCHANGED <<pc, result, out>>
                   ELSE /\ result' = Append(result, r.item[1])
                        /\ idx' = idx + 1
                        /\ UNCHANGED <<pc, out>>
    /\ UNCHANGED <<limiters, buckets, muReaders, muWriter, url, ctxErr, lim, rem, waited, ret>>
    /\ UNCHANGED <<recv, ctx0, collab, retrievals>>

\* extractItems: the loop is over; return result, nil
ExtractReturn(p) ==
    /\ pc[p] = "fap_extract"
    /\ idx = ItemCount(Len(feed[1].data[1]), Cfg.MaxItems)
    /\ out' = Returned(Slice(result), Nil)
    /\ pc' = [pc EXCEPT ![p] = "fap_ret"]
    /\ UNCHANGED <<limiters, buckets, muReaders, muWriter, url, ctxErr, lim, rem, waited, ret>>
    /\ UNCHANGED <<recv, ctx0, feed, collab, retrievals, now, idx, result, log>>

\* FetchAndProcess's caller takes the result; the goroutine is free again.
FetchAndProcessDone(p) ==
    /\ pc[p] = "fap_ret"
    /\ pc' = [pc EXCEPT ![p] = "idle"]
    /\ url' = [url EXCEPT ![p] = NoURL]
    /\ ctxErr' = [ctxErr EXCEPT ![p] = Nil]
    /\ lim' = [lim EXCEPT ![p] = 0]
    /\ rem' = [rem EXCEPT ![p] = 0]
    /\ waited' = [waited EXCEPT ![p] = FALSE]
    /\ ret' = [ret EXCEPT ![p] = Nil]
    /\ recv' = 0
    /\ ctx0' = Nil
    /\ feed' = <<>>
    /\ collab' = NoCollab
    /\ retrievals' = 0
    /\ idx' = 0
    /\ result' = <<>>
    /\ log' = <<>>
    /\ out' = NoOut
    /\ UNCHANGED <<limiters, buckets, muReaders, muWriter, now>>

\* ------------------------------------------------- one FetchAndProcess call

FetchIdle ==
    /\ recv = 0
    /\ ctx0 = Nil
    /\ feed = <<>>
    /\ collab = NoCollab
    /\ retrievals = 0
    /\ now = FirstNow
    /\ idx = 0
    /\ result = <<>>
    /\ log = <<>>
    /\ out = NoOut

RegistryInit ==
    /\ limiters = NewDomainRateLimiter.limiters
    /\ buckets = <<>>
    /\ muReaders = NewDomainRateLimiter.muReaders
    /\ muWriter = NewDomainRateLimiter.muWriter
    /\ pc = [p \in Procs |-> "idle"]
    /\ url = [p \in Procs |-> NoURL]
    /\ ctxErr = [p \in Procs |-> Nil]
    /\ lim = [p \in Procs |-> 0]
    /\ rem = [p \in Procs |-> 0]
    /\ waited = [p \in Procs |-> FALSE]
    /\ ret = [p \in Procs |-> Nil]

LimiterStep(p) ==
    \/ GetLimiterRLock(p)
    \/ GetLimiterRUnlock(p)
    \/ GetLimiterLock(p)
    \/ GetLimiterLocked(p)
    \/ GetLimiterUnlock(p)
    \/ WaitEnter(p)
    \/ WaitReserve(p)
    \/ WaitTimerFired(p)
    \/ WaitCtxDone(p)

Init ==
    /\ RegistryInit
    /\ \E c \in TestConfigs : fetchers = <<NewFeedFetcher(c)>>
    /\ lastWith = NoWith
    /\ FetchIdle
    /\ call = NoCall

Next ==
    \/ /\ \E f \in DOMAIN fetchers, u \in FetchURLs, c \in {Nil, Canceled} :
             FetchAndProcess(Fetcher, f, u, c)
       /\ UNCHANGED <<withVars, callVars>>
    \/ LimiterStep(Fetcher) /\ UNCHANGED <<withVars, fetchVars, callVars>>
    \/ CtxCancel(Fetcher) /\ UNCHANGED <<withVars, fetchVars, callVars>>
    \/ Tick /\ UNCHANGED <<withVars, fetchVars, callVars>>
    \/ FetchAfterWait(Fetcher) /\ UNCHANGED <<withVars, callVars>>
    \/ Download(Fetcher) /\ UNCHANGED <<withVars, callVars>>
    \/ DownloadReturn(Fetcher) /\ UNCHANGED <<withVars, callVars>>
    \/ (\E t \in Nows : ExtractItem(Fetcher, t)) /\ UNCHANGED <<withVars, callVars>>
    \/ ExtractReturn(Fetcher) /\ UNCHANGED <<withVars, callVars>>
    \/ FetchAndProcessDone(Fetcher) /\ UNCHANGED <<withVars, callVars>>

Spec == Init /\ [][Next]_vars

\* ------------------------------------------------------------ With* calls

Call(method, f, arg, r) ==
    /\ Len(fetchers) < MaxFetchers
    /\ fetchers' = r.heap
    /\ lastWith' = [recv |-> f, method |-> method, arg |-> arg, ret |-> r.ret]
    /\ UNCHANGED <<limVars, fetchVars, callVars>>

WithNext ==
    \/ \E f \in DOMAIN fetchers, v \in {"example_app"} :
          Call("WithLogger", f, v, WithLogger(fetchers, f, v))
    \/ \E f \in DOMAIN fetchers, v \in {0, 50} :
          Call("WithMaxItems", f, v, WithMaxItems(fetchers, f, v))
    \/ \E f \in DOMAIN fetchers, v \in {48} :
          Call("WithMaxAge", f, v, WithMaxAge(fetchers, f, v))
    \/ \E f \in DOMAIN fetchers, v \in {"MyFeedReader/1.0"} :
          Call("WithUserAgent", f, v, WithUserAgent(fetchers, f, v))
    \/ \E f \in DOMAIN fetchers, v \in {15} :
          Call("WithRequestTimeout", f, v, WithRequestTimeout(fetchers, f, v))
    \/ \E f \in DOMAIN fetchers, v \in {200} :
          Call("WithMaxHeadingLength", f, v, WithMaxHeadingLength(fetchers, f, v))
    \/ \E f \in DOMAIN fetchers, v \in {12} :
          Call("WithFutureDriftTolerance", f, v, WithFutureDriftTolerance(fetchers, f, v))

WithInit ==
    /\ RegistryInit
    /\ fetchers = <<NewDefaultFeedFetcher>>
    /\ lastWith = NoWith
    /\ FetchIdle
    /\ call = NoCall

SpecWith == WithInit /\ [][WithNext]_vars

\* ------------------------------------------------- the limiter on its own

LimiterInit ==
    /\ RegistryInit
    /\ fetchers = <<NewDefaultFeedFetcher>>
    /\ lastWith = NoWith
    /\ FetchIdle
    /\ call = NoCall

LimiterNext ==
    \/ /\ \E p \in Procs, u \in FeedURLs, c \in {Nil, Canceled} : WaitForDomain(p, u, c)
       /\ UNCHANGED <<withVars, fetchVars, callVars>>
    \/ (\E p \in Procs : LimiterStep(p)) /\ UNCHANGED <<withVars, fetchVars, callVars>>
    \/ (\E p \in Procs : WaitForDomainDone(p)) /\ UNCHANGED <<withVars, fetchVars, callVars>>
    \/ (\E p \in Procs : CtxCancel(p)) /\ UNCHANGED <<withVars, fetchVars, callVars>>
    \/ Tick /\ UNCHANGED <<withVars, fetchVars, callVars>>

SpecLimiter == LimiterInit /\ [][LimiterNext]_vars

TypeOK ==
    /\ \A i \in DOMAIN buckets : buckets[i].tokens \in (0 - MaxDebt)..Burst
    /\ \A i \in DOMAIN buckets : buckets[i].lastEvent \in Past..MaxDebt
    /\ \A p \in Procs : rem[p] \in Past..MaxDebt
    /\ \A p \in Procs : pc[p] = "parked" => buckets[lim[p]].lastEvent >= rem[p]
    /\ muWriter \in Procs \cup {0}

\* ------------------------------- callers of one host, under fair scheduling

\* The feed URLs of one host: with and without the "www." prefix.
SameHostURLs == { u \in FeedURLs : UrlParse(u).err = Nil /\ HostOf(u) = <<"a">> }

FairNext ==
    \/ /\ \E p \in Procs, u \in SameHostURLs, c \in {Nil, Canceled} : WaitForDomain(p, u, c)
       /\ UNCHANGED <<withVars, fetchVars, callVars>>
    \/ (\E p \in Procs : LimiterStep(p)) /\ UNCHANGED <<withVars, fetchVars, callVars>>
    \/ (\E p \in Procs : WaitForDomainDone(p)) /\ UNCHANGED <<withVars, fetchVars, callVars>>
    \/ (\E p \in Procs : CtxCancel(p)) /\ UNCHANGED <<withVars, fetchVars, callVars>>
    \/ Tick /\ UNCHANGED <<withVars, fetchVars, callVars>>

\* Fair scheduling: the Go scheduler runs every runnable goroutine, sync.RWMutex
\* hands the lock to a waiting writer before it admits new readers and to the
\* waiting readers when the writer unlocks, and time passes.
LimiterFairness ==
    /\ \A p \in Procs : SF_vars(LimiterStep(p) /\ UNCHANGED <<withVars, fetchVars, callVars>>)
    /\ WF_vars(Tick /\ UNCHANGED <<withVars, fetchVars, callVars>>)

SpecLimiterFair == LimiterInit /\ [][FairNext]_vars /\ LimiterFairness

\* Callers of two hosts: a bucket is created while a caller of the other host
\* is in its bucket's wait.
TwoHostURLs == { u \in FeedURLs : UrlParse(u).err = Nil /\ u.authority \in {<<"a">>, <<"b">>} }

TwoHostNext ==
    \/ /\ \E p \in Procs, u \in TwoHostURLs, c \in {Nil, Canceled} : WaitForDomain(p, u, c)
       /\ UNCHANGED <<withVars, fetchVars, callVars>>
    \/ (\E p \in Procs : LimiterStep(p)) /\ UNCHANGED <<withVars, fetchVars, callVars>>
    \/ (\E p \in Procs : WaitForDomainDone(p)) /\ UNCHANGED <<withVars, fetchVars, callVars>>
    \/ (\E p \in Procs : CtxCancel(p)) /\ UNCHANGED <<withVars, fetchVars, callVars>>
    \/ Tick /\ UNCHANGED <<withVars, fetchVars, callVars>>

SpecLimiterTwoHosts == LimiterInit /\ [][TwoHostNext]_vars /\ LimiterFairness

\* ------------------------------------------------------------------ claims

InWaitForDomain(p) ==
    pc[p] \in {"gl_rlock", "gl_rlocked", "gl_lock", "gl_locking", "gl_locked",
              "wait", "reserve", "parked"}

\* C4: at most one token bucket is ever created for a normalized host: every
\* bucket ever allocated is the registered bucket of exactly one host (so none
\* was replaced), and every caller that obtained a bucket holds the bucket
\* registered for its host, the same one as every other caller of that host.
C4_OneBucketPerHost ==
    /\ Len(buckets) = Cardinality(DOMAIN limiters)
    /\ \A i \in DOMAIN buckets : \E h \in DOMAIN limiters : limiters[h] = i
    /\ \A p \in Procs :
          lim[p] # 0 =>
              /\ HostOf(url[p]) \in DOMAIN limiters
              /\ limiters[HostOf(url[p])] = lim[p]
    /\ \A p, q \in Procs :
          (lim[p] # 0 /\ lim[q] # 0 /\ HostOf(url[p]) = HostOf(url[q])) => lim[p] = lim[q]

\* C4 witness: two callers raced on the first use of a host: both missed in
\* the read-locked lookup, one has created the bucket and holds it, the other
\* holds the write lock and is about to look up again.
C4_Witness ==
    \E p, q \in Procs :
        /\ p # q
        /\ pc[p] = "gl_locked"
        /\ pc[q] \in {"wait", "reserve", "parked", "wfd_ret"}
        /\ lim[q] # 0
        /\ url[p] # url[q]
        /\ HostOf(url[p]) = HostOf(url[q])
        /\ limiters[HostOf(url[p])] = lim[q]

C8_AdmissionIsolation ==
    [][\A p \in Procs :
          (pc[p] = "reserve" /\ pc'[p] # "reserve") =>
              /\ \A q \in Procs :
                    (lim[q] # 0 /\ HostOf(url[q]) # HostOf(url[p])) =>
                        buckets'[lim[q]] = buckets[lim[q]]
              /\ buckets[lim[p]].tokens >= 1 =>
                    (pc'[p] = "wfd_ret" /\ ret'[p] = Nil /\ ~waited'[p])]_vars

\* C8 witness: a caller of one host has returned Ok without blocking while a
\* caller of another host is blocked on that host's exhausted bucket.
C8_Witness ==
    \E p, q \in Procs :
        /\ pc[p] = "wfd_ret" /\ ret[p] = Nil /\ ~waited[p]
        /\ pc[q] = "parked"
        /\ HostOf(url[p]) # HostOf(url[q])
        /\ buckets[lim[q]].tokens < 0
        /\ lim[p] # lim[q]

\* C9: every caller of WaitForDomain on the shared host whose context is
\* never canceled is eventually granted: the call returns Ok.
C9_NoStarvation ==
    \A p \in Procs :
        InWaitForDomain(p) ~> ((pc[p] = "wfd_ret" /\ ret[p] = Nil) \/ ctxErr[p] = Canceled)

\* C9 witness: a caller that had to block behind the other callers of the
\* host has been granted.
C9_Witness ==
    \E p \in Procs : pc[p] = "wfd_ret" /\ waited[p] /\ ret[p] = Nil /\ ctxErr[p] = Nil

\* The goroutine is in getLimiter.
InGetLimiter(p) == pc[p] \in {"gl_rlock", "gl_rlocked", "gl_lock", "gl_locking", "gl_locked"}

\* The goroutine is in Limiter.Wait, blocked in its select or not.
InWait(p) == pc[p] \in {"wait", "reserve", "parked"}

\* The goroutine holds l.mu, as a reader or as the (coming) writer.
HoldsMu(p) == p \in muReaders \/ muWriter = p

\* C19: a goroutine holds the registry lock only in getLimiter, as a reader
\* for the lookup and as the writer for the create-if-absent, and never in
\* Limiter.Wait; the lock it holds is always released again, and every call of
\* getLimiter comes to Limiter.Wait whatever the callers blocked there do.
C19_NoLockWhileWaiting ==
    /\ [](\A p \in Procs :
            /\ InWait(p) => ~HoldsMu(p)
            /\ p \in muReaders => pc[p] = "gl_rlocked"
            /\ muWriter = p => pc[p] \in {"gl_locking", "gl_locked"})
    /\ \A p \in Procs : InGetLimiter(p) ~> (pc[p] = "wait" /\ ~HoldsMu(p))

\* C19 witness: while one caller is blocked in its bucket's wait, another
\* holds the write lock and is about to create the bucket of its host.
C19_Witness ==
    \E p, q \in Procs :
        /\ pc[q] = "parked"
        /\ ~HoldsMu(q)
        /\ pc[p] = "gl_locked"
        /\ muWriter = p
        /\ Lookup(limiters, LimiterKey(HostOf(url[p]))) = 0

\* ---------------------------------------------------- claims on the pipeline

\* The entries extractItems processes: the first ItemCount of the retrieved feed.
Processed == 1..ItemCount(Len(collab.feed), Cfg.MaxItems)

\* The processed entries whose validation fails with the date-format error
\* (whatever the clock reads).
DateFormatFailures ==
    { i \in Processed :
        /\ ~collab.feed[i].isNil
        /\ Is(ValidateAndConvertItem(feed[1].parsedURL, collab.feed[i], Cfg, FirstNow).err,
              ErrFeedPublicationDateFormat) }

\* extractItems ran and FetchAndProcess has returned.
Extracted == pc[Fetcher] = "fap_ret" /\ collab.called /\ collab.err = Nil

\* The clock reading at which entry i was validated.
ValidatedAt(i) == (CHOOSE e \in { log[k] : k \in DOMAIN log } : e.i = i - 1).t

\* The entries from i on that pass validation, converted, in feed order.
RECURSIVE Accepted(_)
Accepted(i) ==
    IF i \notin Processed THEN <<>>
    ELSE IF collab.feed[i].isNil THEN Accepted(i + 1)
    ELSE LET r == ValidateAndConvertItem(feed[1].parsedURL, collab.feed[i], Cfg, ValidatedAt(i))
         IN  IF r.err # Nil THEN Accepted(i + 1) ELSE r.item \o Accepted(i + 1)

\* C1: when a processed entry fails with the date-format error, FetchAndProcess
\* returns no items and ErrFeedPublicationDateFormat, whatever was accepted
\* before; the first such entry is the last entry validated.
C1_DateFormatAborts ==
    /\ \A k \in DOMAIN log :
          Is(log[k].err, ErrFeedPublicationDateFormat) =>
              /\ k = Len(log)
              /\ pc[Fetcher] = "fap_ret"
              /\ out = Returned(NilSlice, ErrFeedPublicationDateFormat)
    /\ (Extracted /\ DateFormatFailures # {}) =>
          LET first == CHOOSE i \in DateFormatFailures : \A j \in DateFormatFailures : i <= j
          IN  /\ out = Returned(NilSlice, ErrFeedPublicationDateFormat)
              /\ log # <<>>
              /\ log[Len(log)].i = first - 1
              /\ Is(log[Len(log)].err, ErrFeedPublicationDateFormat)

\* C1 witness: the batch was aborted on the second entry, after the first was
\* accepted and with a valid third entry never validated.
C1_Witness ==
    /\ Extracted
    /\ out.err = ErrFeedPublicationDateFormat
    /\ Len(result) = 1
    /\ Len(log) = 2
    /\ 3 \in Processed
    /\ ~collab.feed[3].isNil
    /\ ValidateAndConvertItem(feed[1].parsedURL, collab.feed[3], Cfg, now).err = Nil

\* C2: when no processed entry fails with the date-format error, FetchAndProcess
\* returns no error and exactly the processed entries that pass validation, in
\* feed order: every other failure only drops its entry.
C2_OtherFailuresSkipped ==
    (Extracted /\ DateFormatFailures = {}) =>
        /\ out.returned
        /\ out.err = Nil
        /\ ~out.items.isNil
        /\ Len(log) = Cardinality({ i \in Processed : ~collab.feed[i].isNil })
        /\ out.items.elems = Accepted(1)

\* C2 witness: of three entries the second failed (not on the date format) and
\* was dropped; the first and the third were returned.
C2_Witness ==
    /\ Extracted
    /\ out.err = Nil
    /\ Len(log) = 3
    /\ log[1].err = Nil
    /\ log[2].err # Nil
    /\ log[3].err = Nil
    /\ Len(out.items.elems) = 2

\* C3: FetchAndProcess returns either a list of items (possibly empty) and no
\* error, or an error and no items; it has returned exactly when the call is
\* over.
C3_ItemsOrError ==
    /\ out.returned <=> pc[Fetcher] = "fap_ret"
    /\ out.returned =>
          \/ out.err = Nil /\ ~out.items.isNil
          \/ out.err # Nil /\ out.items = NilSlice
    /\ ~out.returned => out = NoOut

\* C3 witness: an error was returned after two entries had been accepted.
C3_Witness ==
    /\ out.returned
    /\ out.err # Nil
    /\ out.items = NilSlice
    /\ Len(result) = 2

\* C6 as stated: a call with an already canceled context fails with Canceled.
C6_PreCanceled ==
    (pc[Fetcher] = "fap_ret" /\ ctx0 = Canceled) =>
        /\ Is(out.err, Canceled)
        /\ out.items = NilSlice

\* C6: a call with an already canceled context and a feed URL that parses and
\* has a host after the "www." trim fails with Canceled at once: no items, no
\* wait for a token and no retrieval, whether or not a token is available.
C6_PreCanceledValidURL ==
    (/\ pc[Fetcher] = "fap_ret"
     /\ ctx0 = Canceled
     /\ UrlParse(url[Fetcher]).err = Nil
     /\ HostOf(url[Fetcher]) # <<>>) =>
        /\ out = Returned(NilSlice, Canceled)
        /\ retrievals = 0
        /\ ~waited[Fetcher]

\* C6 witness: a call with an already canceled context returned Canceled while
\* the host's bucket had a token.
C6_Witness ==
    /\ pc[Fetcher] = "fap_ret"
    /\ ctx0 = Canceled
    /\ lim[Fetcher] # 0
    /\ buckets[lim[Fetcher]].tokens >= 1
    /\ out.err = Canceled

\* C7: download's error matches DeadlineExceeded exactly when the
\* collaborator's does, Canceled exactly when the collaborator's does, never
\* both, and the feed's data stays unset; on success the feed's data is the
\* collaborator's result and nothing is returned yet.
C7_DownloadErrorClass ==
    /\ (collab.called /\ collab.err # Nil) =>
          /\ pc[Fetcher] = "fap_ret"
          /\ out.err # Nil
          /\ Is(out.err, DeadlineExceeded) <=> Is(collab.err, DeadlineExceeded)
          /\ Is(out.err, Canceled) <=> Is(collab.err, Canceled)
          /\ ~(Is(out.err, DeadlineExceeded) /\ Is(out.err, Canceled))
          /\ feed[1].data = <<>>
    /\ (collab.called /\ collab.err = Nil /\ pc[Fetcher] = "fap_extract" /\ idx = 0) =>
          /\ feed[1].data = <<collab.feed>>
          /\ ~out.returned

\* C7 witness: the collaborator failed with an error that wraps Canceled, and
\* the error returned matches Canceled.
C7_Witness ==
    /\ pc[Fetcher] = "fap_ret"
    /\ collab.called
    /\ collab.err = Wrap("Get", Canceled)
    /\ Is(out.err, Canceled)
    /\ out.err # collab.err

\* ------------------------------------------------------ claims on With* calls

ConfigFields ==
    {"UserAgent", "RequestTimeout", "MaxItems", "MaxHeadingLength", "MaxAge",
     "FutureDriftTolerance"}

\* The configuration field a With* method overrides ("" for WithLogger).
Overridden(method) ==
    CASE method = "WithMaxItems" -> "MaxItems"
      [] method = "WithMaxAge" -> "MaxAge"
      [] method = "WithUserAgent" -> "UserAgent"
      [] method = "WithRequestTimeout" -> "RequestTimeout"
      [] method = "WithMaxHeadingLength" -> "MaxHeadingLength"
      [] method = "WithFutureDriftTolerance" -> "FutureDriftTolerance"
      [] OTHER -> ""

\* C10: a With* call changes no fetcher that exists, the receiver included,
\* and returns a new fetcher whose configuration is the receiver's in every
\* field but the one the call overrides, which is the argument.
C10_WithCopies ==
    [][lastWith' # lastWith \/ fetchers' # fetchers =>
          /\ \A i \in DOMAIN fetchers : i \in DOMAIN fetchers' /\ fetchers'[i] = fetchers[i]
          /\ lastWith'.ret \notin DOMAIN fetchers
          /\ lastWith'.ret \in DOMAIN fetchers'
          /\ \A F \in ConfigFields :
                IF F = Overridden(lastWith'.method)
                THEN fetchers'[lastWith'.ret].config[F] = lastWith'.arg
                ELSE fetchers'[lastWith'.ret].config[F] = fetchers[lastWith'.recv].config[F]]_vars

\* C10 witness: a fetcher derived from a derived fetcher: the three differ in
\* configuration and the first is still the default one.
C10_Witness ==
    /\ Len(fetchers) = 3
    /\ lastWith.recv = 2
    /\ lastWith.ret = 3
    /\ fetchers[1] = NewDefaultFeedFetcher
    /\ fetchers[2].config # fetchers[1].config
    /\ fetchers[3].config # fetchers[2].config
    /\ fetchers[3].config # fetchers[1].config

\* ------------------------------------------------------- the MaxItems cap

\* The number of entries to process, as the configuration option is described:
\* the first min(maxItems, n) when maxItems > 0, all n otherwise.
Cap == IF Cfg.MaxItems > 0 THEN Min(Cfg.MaxItems, Len(collab.feed)) ELSE Len(collab.feed)

\* C11: once retrieval has succeeded, extractItems validates only entries among
\* the first Cap, in feed order, and all of them unless the batch is aborted;
\* with MaxItems > 0 neither the result nor the returned list has more than
\* MaxItems items.
C11_MaxItemsCap ==
    (collab.called /\ collab.err = Nil) =>
        /\ idx <= Cap
        /\ \A k \in DOMAIN log : log[k].i + 1 <= Cap
        /\ \A k \in DOMAIN log : k < Len(log) => log[k].i < log[k + 1].i
        /\ Cfg.MaxItems > 0 =>
              /\ Len(result) <= Cfg.MaxItems
              /\ Len(out.items.elems) <= Cfg.MaxItems
        /\ (out.returned /\ out.err = Nil) =>
              /\ idx = Cap
              /\ Len(log) = Cardinality({ i \in 1..Cap : ~collab.feed[i].isNil })

\* C11 witness: with MaxItems = 2, a feed of three entries whose third has a
\* date no layout reads was processed without error: two items were returned.
C11_Witness ==
    /\ Extracted
    /\ out.err = Nil
    /\ Cfg.MaxItems = 2
    /\ Len(collab.feed) = 3
    /\ Is(ValidateAndConvertItem(feed[1].parsedURL, collab.feed[3], Cfg, now).err,
          ErrFeedPublicationDateFormat)
    /\ Len(out.items.elems) = 2

\* --------------------------------------- calls of the validation functions

\* The most code points of a raw headline.
MaxRawLen == 4

\* The code points of raw headlines: letters of one and of two bytes, white
\* space the regular expression sees, white space only unicode.IsSpace sees.
HeadlineChars == {"a", "eacute", " ", "\t", "nbsp"}

RawHeadlines == UNION { [1..n -> HeadlineChars] : n \in 0..MaxRawLen }

MaxLengths == {1, 2, 3}

\* A call ValidateAndSanitizeHeadline(rawHeadline, maxLength).  The validation
\* functions keep no state between calls, so a behaviour makes one call.
CallValidateAndSanitizeHeadline ==
    /\ call = NoCall
    /\ \E raw \in RawHeadlines, maxLength \in MaxLengths :
          call' = [fn |-> "ValidateAndSanitizeHeadline", raw |-> raw, maxLength |-> maxLength,
                   res |-> ValidateAndSanitizeHeadline(raw, maxLength)]
    /\ UNCHANGED <<limVars, withVars, fetchVars>>

ValidationInit ==
    /\ RegistryInit
    /\ fetchers = <<NewDefaultFeedFetcher>>
    /\ lastWith = NoWith
    /\ FetchIdle
    /\ call = NoCall

\* The elements of s at the indexes I, in order.
Pick(s, I) ==
    [k \in 1..Cardinality(I) |-> s[CHOOSE i \in I : Cardinality({ j \in I : j <= i }) = k]]

\* s with every run of white space (as \s sees it) replaced by one space: each
\* white space becomes a space, and only the first of a run is kept.
Squash(s) ==
    Pick([i \in DOMAIN s |-> IF s[i] \in RegexpSpace THEN " " ELSE s[i]],
         { i \in DOMAIN s : ~(s[i] \in RegexpSpace /\ i > 1 /\ s[i - 1] \in RegexpSpace) })

\* s without its leading and trailing white space (as unicode.IsSpace sees it).
Strip(s) ==
    LET I == { i \in DOMAIN s : s[i] \notin UnicodeSpace }
    IN  IF I = {} THEN <<>>
        ELSE SubSeq(s, CHOOSE i \in I : \A j \in I : i <= j, CHOOSE i \in I : \A j \in I : j <= i)

\* C12: ValidateAndSanitizeHeadline gives EmptyHeadline for the empty raw
\* headline; otherwise, with the sanitized headline being the input with every
\* run of white space replaced by one space and leading and trailing white
\* space removed, HeadlineTooLong if that has more code points than maxLength,
\* else the sanitized headline and no error.
C12_HeadlineSanitation ==
    call.fn = "ValidateAndSanitizeHeadline" =>
        IF call.raw = <<>>
        THEN call.res = [headline |-> <<>>, err |-> ErrEmptyHeadline]
        ELSE IF Len(Strip(Squash(call.raw))) > call.maxLength
        THEN call.res = [headline |-> <<>>, err |-> ErrHeadlineTooLong]
        ELSE call.res = [headline |-> Strip(Squash(call.raw)), err |-> Nil]

\* C12 witness: a raw headline of four code points with a run of white space
\* was sanitized to three code points, which take four bytes, and accepted
\* with maxLength = 3.
C12_Witness ==
    /\ call.fn = "ValidateAndSanitizeHeadline"
    /\ call.raw = <<"a", " ", "\t", "eacute">>
    /\ call.maxLength = 3
    /\ call.res = [headline |-> <<"a", " ", "eacute">>, err |-> Nil]

\* ------------------------------------------------------------- publishedAt

\* The entries (indexes in the retrieved feed) accepted so far, in order.
AcceptedEntries ==
    Pick([k \in DOMAIN log |-> log[k].i + 1], { k \in DOMAIN log : log[k].err = Nil })

\* The instant an entry's publication date denotes: that of the pre-parsed
\* time if there is one, else the string's wall clock less its offset.
InstantOf(entry) ==
    IF entry.PublishedParsed # <<>> THEN entry.PublishedParsed[1].inst
    ELSE entry.Published.wall - entry.Published.off

LinkCheck(i) == ValidateAndResolveURL(feed[1].parsedURL, collab.feed[i].Link)
DateCheck(i, t) ==
    ValidatePublicationDate(collab.feed[i], Cfg.MaxAge, Cfg.FutureDriftTolerance, t)
HeadlineCheck(i) == ValidateAndSanitizeHeadline(collab.feed[i].Title, Cfg.MaxHeadingLength)

\* C16: the failure reported for an entry is the one of the first failing check
\* in the order link, publication date (resolution, then freshness), headline;
\* when the link check fails the date is not parsed (the entry keeps no cached
\* date) and the batch is not aborted on that entry, unparsable date or not.
C16_CheckOrder ==
    \A k \in DOMAIN log :
        LET i == log[k].i + 1
            u == LinkCheck(i)
            d == DateCheck(i, log[k].t)
            h == HeadlineCheck(i)
        IN  /\ log[k].err = IF u.err # Nil THEN u.err
                            ELSE IF d.err # Nil THEN d.err
                            ELSE h.err
            /\ u.err # Nil =>
                  /\ log[k].err = ErrInvalidURL
                  /\ feed[1].data[1][i] = collab.feed[i]
                  /\ ~(pc[Fetcher] = "fap_ret" /\ k = Len(log) /\ out.err # Nil)

\* C16 witness: an entry with an invalid link and an unparsable date was
\* skipped with InvalidURL, the entry after it was accepted and the batch
\* returned without error.
C16_Witness ==
    /\ Extracted
    /\ out.err = Nil
    /\ Len(log) >= 2
    /\ log[1].err = ErrInvalidURL
    /\ Is(DateCheck(log[1].i + 1, log[1].t).err, ErrFeedPublicationDateFormat)
    /\ log[2].err = Nil
    /\ Len(out.items.elems) >= 1

\* ------------------------------------------------- order of the steps

\* The admission wait of the FetchAndProcess call has returned an error.
AdmissionRefused == pc[Fetcher] \in {"wfd_ret", "fap_ret"} /\ ret[Fetcher] # Nil

\* extractItems has been entered: an entry was validated or is about to be.
Validating == pc[Fetcher] = "fap_extract" \/ idx > 0 \/ log # <<>>

\* C18: in one FetchAndProcess call the collaborator is invoked at most once,
\* and only once WaitForDomain has returned nil; entries are validated only
\* once the collaborator has returned a feed; after a failed admission wait
\* there is neither retrieval nor validation, after a failed retrieval no
\* validation.
C18_StepOrder ==
    /\ retrievals <= 1
    /\ collab.called => retrievals = 1
    /\ retrievals > 0 =>
          /\ ret[Fetcher] = Nil
          /\ pc[Fetcher] \in {"fap_retrieving", "fap_extract", "fap_ret"}
    /\ Validating => retrievals = 1 /\ collab.called /\ collab.err = Nil
    /\ AdmissionRefused => retrievals = 0 /\ ~collab.called /\ ~Validating
    /\ (collab.called /\ collab.err # Nil) =>
          /\ ~Validating
          /\ pc[Fetcher] = "fap_ret"
          /\ out.err # Nil

\* C18 witness: a call that waited for a token, retrieved the feed once and
\* validated two entries.
C18_Witness ==
    /\ pc[Fetcher] = "fap_ret"
    /\ waited[Fetcher]
    /\ ret[Fetcher] = Nil
    /\ retrievals = 1
    /\ collab.called
    /\ Len(log) = 2

\* ------------------------------------------------- returned headlines

\* The items FetchAndProcess returned.
ReturnedItems ==
    IF pc[Fetcher] = "fap_ret" /\ out.returned /\ out.err = Nil THEN out.items.elems ELSE <<>>

\* h has no white space at either end and no two white spaces in a row.
WellSpaced(h) ==
    /\ h # <<>> => h[1] \notin UnicodeSpace /\ h[Len(h)] \notin UnicodeSpace
    /\ \A i \in 1..(Len(h) - 1) : ~(h[i] \in UnicodeSpace /\ h[i + 1] \in UnicodeSpace)

\* C20 as stated: every item FetchAndProcess returns has a headline that is
\* not empty, has no white space at either end, no run of two or more white
\* spaces and at most MaxHeadingLength code points, whatever the raw title.
C20_HeadlineWellFormed ==
    \A k \in DOMAIN ReturnedItems :
        /\ ReturnedItems[k].Headline # <<>>
        /\ WellSpaced(ReturnedItems[k].Headline)
        /\ RuneCount(ReturnedItems[k].Headline) <= Cfg.MaxHeadingLength

\* C20 witness: FetchAndProcess returned an item whose headline is empty, made
\* from an entry whose title is white space only.
C20_Witness ==
    /\ Extracted
    /\ \E k \in DOMAIN ReturnedItems : ReturnedItems[k].Headline = <<>>
    /\ \E i \in Processed :
          /\ ~collab.feed[i].isNil
          /\ collab.feed[i].Title # <<>>
          /\ \A j \in DOMAIN collab.feed[i].Title : collab.feed[i].Title[j] \in RegexpSpace

\* ------------------------------------------- calls of ValidatePublicationDate

\* The latest instant (hours) of the dates and clock readings tried.
MaxInstant == 5

Instants == 0..MaxInstant

\* MaxAge and FutureDriftTolerance values, a negative one included.
Durations == {0 - 2, 0, 1, 2}

\* Publication date strings: empty, read by no layout, with the offsets 0, 1
\* and the local zone's, with a zone abbreviation, without zone, and one that
\* eetePattern matches.
DateStrings ==
    {EmptyDate, DateString("unknown", 0, 0)}
    \cup { DateString("offset", w, o) : w \in Instants, o \in {0, 1, LocalOffset} }
    \cup { DateString(k, w, o) : k \in {"localzone"}, w \in Instants, o \in {LocalOffset} }
    \cup { DateString(k, w, o) : k \in {"otherzone"}, w \in Instants, o \in {1} }
    \cup { DateString(k, w, o) : k \in {"nozone", "eete"}, w \in Instants, o \in {0} }

\* item.PublishedParsed: nil, or a time in UTC, in a fixed zone or in the
\* local zone.
PreParsed ==
    {<<>>}
    \cup { <<Time(i, "UTC", 0)>> : i \in Instants }
    \cup { <<Time(i, "Fixed", 1)>> : i \in Instants }
    \cup { <<Time(i, "Local", LocalOffset)>> : i \in Instants }

DatedItem(published, publishedParsed) ==
    Item(RelativeLink, <<"H", "i">>, <<"d">>, <<>>, published, publishedParsed)

\* A call ValidatePublicationDate(item, maxAge, futureTolerance) at
\* time.Now() = t.
CallValidatePublicationDate ==
    /\ call = NoCall
    /\ \E ds \in DateStrings, pp \in PreParsed, maxAge \in Durations,
          futureTolerance \in Durations, t \in Instants :
          call' = [fn |-> "ValidatePublicationDate", item |-> DatedItem(ds, pp),
                   maxAge |-> maxAge, futureTolerance |-> futureTolerance, now |-> t,
                   res |-> ValidatePublicationDate(DatedItem(ds, pp), maxAge,
                                                   futureTolerance, t)]
    /\ UNCHANGED <<limVars, withVars, fetchVars>>

\* The call resolved the publication date: neither MissingPublishDate nor the
\* date-format error.
DateResolved ==
    /\ call.fn = "ValidatePublicationDate"
    /\ call.res.err # ErrMissingPublishDate
    /\ ~Is(call.res.err, ErrFeedPublicationDateFormat)

\* C14: with p the instant of the resolved publication date, the result is
\* FuturePublication when p - now > futureTolerance (whatever the age check
\* would say), else TooOld when now - p > maxAge, else p, in UTC, and no error;
\* so p exactly futureTolerance ahead or exactly maxAge behind is accepted.
C14_FreshnessWindow ==
    DateResolved =>
        LET p == call.res.item.PublishedParsed[1].inst
        IN  IF p - call.now > call.futureTolerance
            THEN call.res.err = ErrFuturePublication /\ call.res.t = ZeroTime
            ELSE IF call.now - p > call.maxAge
            THEN call.res.err = ErrPublicationTooOld /\ call.res.t = ZeroTime
            ELSE call.res.err = Nil /\ call.res.t = Time(p, "UTC", 0)

\* C14 witness: a date exactly maxAge behind the clock was accepted.
C14_Witness ==
    /\ DateResolved
    /\ call.maxAge = 2
    /\ call.now - call.res.item.PublishedParsed[1].inst = call.maxAge
    /\ call.res.item.PublishedParsed[1].off # 0
    /\ call.res.err = Nil

\* C17: ValidatePublicationDate resolves the date so: an entry with a
\* pre-parsed date is left as it is and the outcome does not depend on its raw
\* string; else an empty raw string gives ErrMissingPublishDate and a string
\* ParseDateWithDefaultTZ rejects gives the date-format error, the entry
\* unchanged in both; else the parsed time is stored in the entry, and that is
\* the only change ever made to it (the freshness tests that follow do not
\* undo it).
C17_DateResolution ==
    call.fn = "ValidatePublicationDate" =>
        LET item == call.item
            parsed == ParseDateWithDefaultTZ(item.Published)
            other == ValidatePublicationDate([item EXCEPT !.Published = EmptyDate],
                                             call.maxAge, call.futureTolerance, call.now)
        IN  IF item.PublishedParsed # <<>>
            THEN /\ call.res.item = item
                 /\ call.res.t = other.t
                 /\ call.res.err = other.err
                 /\ call.res.err # ErrMissingPublishDate
                 /\ ~Is(call.res.err, ErrFeedPublicationDateFormat)
            ELSE IF item.Published = EmptyDate
            THEN call.res.err = ErrMissingPublishDate /\ call.res.item = item
            ELSE IF parsed.err # Nil
            THEN Is(call.res.err, ErrFeedPublicationDateFormat) /\ call.res.item = item
            ELSE /\ call.res.item = [item EXCEPT !.PublishedParsed = <<parsed.t>>]
                 /\ call.res.err # ErrMissingPublishDate
                 /\ ~Is(call.res.err, ErrFeedPublicationDateFormat)

\* C17 witness: an entry without pre-parsed date whose string was parsed, the
\* time stored in the entry and the date accepted.
C17_Witness ==
    /\ call.fn = "ValidatePublicationDate"
    /\ call.item.PublishedParsed = <<>>
    /\ call.item.Published.kind = "nozone"
    /\ call.res.item.PublishedParsed = <<Time(call.item.Published.wall, "UTC", 0)>>
    /\ call.res.err = Nil

\* ------------------------------------------- calls of ParseDateWithDefaultTZ

\* A call ParseDateWithDefaultTZ(dateStr).
CallParseDateWithDefaultTZ ==
    /\ call = NoCall
    /\ \E ds \in DateStrings :
          call' = [fn |-> "ParseDateWithDefaultTZ", dateStr |-> ds,
                   res |-> ParseDateWithDefaultTZ(ds)]
    /\ UNCHANGED <<limVars, withVars, fetchVars>>

\* The string of the call is matched by eetePattern or by a layout.
LayoutMatched ==
    /\ call.fn = "ParseDateWithDefaultTZ"
    /\ call.dateStr.kind \in {"eete", "offset", "localzone", "otherzone", "nozone"}

\* The string of the call carries a numeric offset that is neither zero nor
\* the local zone's.
ForeignOffset ==
    /\ call.dateStr.kind = "offset"
    /\ call.dateStr.off \notin {0, LocalOffset}

\* C15 as stated: for every string matched by a layout or by the malformed-token
\* pattern, ParseDateWithDefaultTZ succeeds and the time it returns has UTC
\* offset zero, strings with an explicit non-zero offset included.
C15_OffsetZero ==
    LayoutMatched => call.res.err = Nil /\ call.res.t.off = 0

\* C15 amended: for every matched string ParseDateWithDefaultTZ succeeds; the
\* time it returns has UTC offset zero unless the string carries a numeric
\* offset that is neither zero nor the local zone's, and then the time keeps
\* that offset (and denotes the wall clock less the offset).
C15_OffsetZeroUnlessForeign ==
    LayoutMatched =>
        /\ call.res.err = Nil
        /\ IF ForeignOffset
           THEN /\ call.res.t.off = call.dateStr.off
                /\ call.res.t.inst = call.dateStr.wall - call.dateStr.off
           ELSE call.res.t.off = 0

\* C15 witness: a string carrying an offset that is neither zero nor the local
\* zone's was parsed, and the time returned keeps that offset.
C15_Witness ==
    /\ LayoutMatched
    /\ ForeignOffset
    /\ call.res.err = Nil
    /\ call.res.t.loc = "Fixed"
    /\ call.res.t.off = 1

ValidationNext ==
    \/ CallValidateAndSanitizeHeadline
    \/ CallValidatePublicationDate
    \/ CallParseDateWithDefaultTZ

SpecValidation == ValidationInit /\ [][ValidationNext]_vars

====
